---- MODULE Spec2Model ----
(***************************************************************************)
(* Model of the Moessbauer spectrum analyzer backend:                      *)
(*   backend/fit_spectrum.py  (MossbauerFitter, process_spectrum)          *)
(*   backend/summarize.py     (MossbauerInterpreter, report generation)    *)
(*   backend/main.py          (HTTP handlers, credential handling)         *)
(*                                                                         *)
(* Numbers.  Velocities are integers in units of 0.1 mm/s.  An absorption  *)
(* array is a sequence of integers num with a scale: its values are        *)
(* num[i] * mul / den, so the divisions of load_data are exact.  An isomer *)
(* shift (c1 + c2) / 2 and a quadrupole splitting |c2 - c1| are kept in    *)
(* units of 0.05 mm/s.  A relative area is the exact fraction num / den.   *)
(* Reduced chi-squared is in units of 0.1.                                 *)
(***************************************************************************)
EXTENDS Integers, Sequences, FiniteSets, TLC

\* ------------------------------------------------------------------ bounds

\* Largest number of rows of an uploaded table.
MaxRows == 60
\* Largest number of absorption dips written into an uploaded table.
MaxDips == 11
\* Largest explicit n_sites option a request carries.
MaxSites == 3
\* Largest fitted amplitude the optimizer returns for a component.
MaxAmp == 2
\* Largest number of reports created while the requests vary.
MaxServerReports == 2
\* Largest number of reports created while one request is repeated.
MaxReports == 102

\* ----------------------------------------------------------- small helpers

None == [some |-> FALSE]
Some(x) == [some |-> TRUE, val |-> x]

\* The array a written out (the same sequence, held as a tuple of values).
Array(a) == SubSeq(a, 1, Len(a))

\* Body applied to the value of e, e being evaluated once.
With(e, Body(_)) == CHOOSE r \in {Body(x) : x \in {e}} : TRUE

Abs(x) == IF x < 0 THEN -x ELSE x
Min2(a, b) == IF a <= b THEN a ELSE b
Max2(a, b) == IF a >= b THEN a ELSE b

\* Sum, maximum and minimum of s[lo..hi], by halves.
RECURSIVE SumRange(_, _, _)
SumRange(s, lo, hi) ==
    IF lo > hi THEN 0
    ELSE IF lo = hi THEN s[lo]
    ELSE LET mid == (lo + hi) \div 2
         IN  SumRange(s, lo, mid) + SumRange(s, mid + 1, hi)
SumSeq(s) == SumRange(s, 1, Len(s))

RECURSIVE MaxRange(_, _, _)
MaxRange(s, lo, hi) ==
    IF lo = hi THEN s[lo]
    ELSE LET mid   == (lo + hi) \div 2
             left  == MaxRange(s, lo, mid)
             right == MaxRange(s, mid + 1, hi)
         IN  Max2(left, right)
SeqMax(s) == MaxRange(s, 1, Len(s))

RECURSIVE MinRange(_, _, _)
MinRange(s, lo, hi) ==
    IF lo = hi THEN s[lo]
    ELSE LET mid   == (lo + hi) \div 2
             left  == MinRange(s, lo, mid)
             right == MinRange(s, mid + 1, hi)
         IN  Min2(left, right)
SeqMin(s) == MinRange(s, 1, Len(s))

\* The k-th smallest element (1-based) of a non-empty integer sequence.
KthSmallest(s, k) ==
    CHOOSE x \in {s[i] : i \in DOMAIN s} :
        /\ Cardinality({i \in DOMAIN s : s[i] < x}) < k
        /\ Cardinality({i \in DOMAIN s : s[i] <= x}) >= k

\* ------------------------------------------------------------ uploaded files

\* An uploaded file: the extension of its name, whether any reader can parse
\* its bytes at all, the delimiter of a text file, and the table it holds:
\* ncols columns and nrows rows, of which the first `missing` rows hold an
\* empty cell.  `text` names a column holding a non-numeric cell.  The
\* absorption column is a level with ndips single-sample dips, every second
\* sample from sample 2 on; with `alt`, every second dip is shallower.
Level(profile) == IF profile = "percent" THEN 12 ELSE 1
DipValue(profile, j, alt) ==
    IF profile = "percent"
    THEN (IF alt /\ j % 2 = 0 THEN 10 ELSE 8)
    ELSE (IF alt /\ j % 2 = 0 THEN -1 ELSE -3)

DipIndex(f, i) == IF i >= 2 /\ i % 2 = 0 /\ i < f.nrows /\ i \div 2 <= f.ndips
                  THEN i \div 2 ELSE 0

RawVelocity(f, i) == IF f.desc THEN (f.nrows - i + 1) - (f.nrows \div 2)
                     ELSE i - (f.nrows \div 2)

RawAbsorption(f, i) == IF DipIndex(f, i) > 0
                       THEN DipValue(f.profile, DipIndex(f, i), f.alt)
                       ELSE Level(f.profile)

RawRows(f) == Array([i \in 1..f.nrows |->
                 [v |-> RawVelocity(f, i), a |-> RawAbsorption(f, i), na |-> i <= f.missing]])

\* pd.read_excel: the first row of the sheet becomes the header; bytes that
\* are no workbook raise.
ReadExcel(f) ==
    IF ~f.parses THEN [raised |-> TRUE]
    ELSE [raised |-> FALSE, ncols |-> f.ncols, text |-> f.text,
          rows |-> With(RawRows(f), LAMBDA rows : SubSeq(rows, 2, f.nrows))]

\* pd.read_csv(sep=sep, header=None): splitting on the file's own delimiter
\* yields its columns; any other separator yields one column holding each
\* whole line as text.  Bytes with no columns to parse raise.
ReadCsv(f, sep) ==
    IF ~f.parses THEN [raised |-> TRUE]
    ELSE IF sep = f.delim \/ f.ncols = 1
         THEN [raised |-> FALSE, ncols |-> f.ncols, text |-> f.text, rows |-> RawRows(f)]
         ELSE With(RawRows(f), LAMBDA rows :
                [raised |-> FALSE, ncols |-> 1, text |-> "col0",
                 rows |-> Array([i \in 1..f.nrows |-> [rows[i] EXCEPT !.na = FALSE]])])

Separators == <<"tab", "space", "comma", "semicolon">>

\* The delimiter loop of load_data: df is the last frame read without an
\* error, the loop stopping at the first one with two columns or more.
\* df stays unbound when every read raised.
RECURSIVE TryDelimiters(_, _, _)
TryDelimiters(f, k, df) ==
    IF k > Len(Separators) THEN df
    ELSE With(ReadCsv(f, Separators[k]), LAMBDA r :
            IF r.raised THEN TryDelimiters(f, k + 1, df)
            ELSE IF r.ncols >= 2 THEN Some(r)
            ELSE TryDelimiters(f, k + 1, Some(r)))

\* A faulty dropna: the rows with an empty cell are kept.
KeepNa(rows) == rows

\* df.dropna().reset_index(drop=True)
DropNa(rows) == SelectSeq(rows, LAMBDA r : ~r.na)

\* np.percentile(a, 95), linear interpolation, times 20 (an integer): the
\* position 0.95 * (n - 1) lies r / 20 of the way from sorted[lo] to sorted[lo + 1].
Percentile95x20(num) ==
    LET n  == Len(num)
        lo == (19 * (n - 1)) \div 20
        r  == (19 * (n - 1)) % 20
        a  == KthSmallest(num, lo + 1)
        b  == KthSmallest(num, Min2(lo + 2, n))
    IN  20 * a + r * (b - a)

\* An absorption array is num[i] * mul / den (mul >= 0, den > 0).
\* Lines 65-72: divide by 100 when the maximum exceeds 10, then divide by the
\* 95th percentile when the minimum is below 0.9.  With B / 20 the percentile
\* of num, x * s / (B / 20 * s) is 20 x / B for any scale s.  A zero
\* percentile leaves no finite value (den = 0).
Normalize(raw) ==
    LET den1 == IF SeqMax(raw) > 10 THEN 100 ELSE 1
    IN  IF 10 * SeqMin(raw) < 9 * den1
        THEN With(Percentile95x20(raw), LAMBDA B :
                [num |-> Array([i \in DOMAIN raw |-> IF B < 0 THEN -raw[i] ELSE raw[i]]),
                 mul |-> 20, den |-> Abs(B)])
        ELSE [num |-> raw, mul |-> 1, den |-> den1]

MsgUnsupported == "Unsupported file format. Please use .xlsx, .txt, or .csv"
MsgColumns == "File must contain at least 2 columns (velocity and absorption)"
MsgRows == "Insufficient data points (minimum 10 required)"
MsgLoaded == "Data loaded successfully"
MsgLoadError == "Error loading data: "

\* MossbauerFitter.__init__
NewFitter == [velocity |-> None, absorption |-> None, result |-> None]

\* MossbauerFitter.load_data: <<success, message>> and the fitter it leaves.
ReadFrame(f) ==
    IF f.ext = "xlsx"
    THEN (IF ReadExcel(f).raised THEN None ELSE Some(ReadExcel(f)))
    ELSE TryDelimiters(f, 1, None)

load_data(self, f) ==
    LET fail(m, fitter) == [ok |-> FALSE, message |-> m, fitter |-> fitter]
    IN  IF f.ext \notin {"xlsx", "txt", "csv"} THEN fail(MsgUnsupported, self)
        ELSE With(ReadFrame(f), LAMBDA df :
          IF ~df.some THEN fail(MsgLoadError, self)
          ELSE With(DropNa(df.val.rows), LAMBDA rows :
            LET s1 == [self EXCEPT !.velocity =
                          Some(Array([i \in DOMAIN rows |-> rows[i].v]))]
            IN  IF df.val.ncols < 2 THEN fail(MsgColumns, self)
                ELSE IF Len(rows) < 10 THEN fail(MsgRows, self)
                ELSE IF df.val.text = "col0" THEN fail(MsgLoadError, self)
                ELSE IF df.val.text = "col1" THEN fail(MsgLoadError, s1)
                ELSE With(Array([i \in DOMAIN rows |-> rows[i].a]), LAMBDA raw :
                       [ok |-> TRUE, message |-> MsgLoaded,
                        fitter |-> [s1 EXCEPT !.absorption = Some(Normalize(raw))]])))

\* ------------------------------------------------------- scipy.signal.find_peaks

\* _local_maxima_1d: the midpoint of every plateau (a single sample included)
\* that is strictly higher than both of its neighbours; the first and the
\* last sample are never part of a peak.
RECURSIVE PlateauEnd(_, _)
PlateauEnd(x, i) == IF i < Len(x) /\ x[i + 1] = x[i] THEN PlateauEnd(x, i + 1) ELSE i

LocalMaxima(x) ==
    { (l + PlateauEnd(x, l)) \div 2 :
        l \in { i \in 2..(Len(x) - 1) :
                  /\ x[i - 1] < x[i]
                  /\ PlateauEnd(x, i) < Len(x)
                  /\ x[PlateauEnd(x, i) + 1] < x[i] } }

\* x[p] >= (tenths / 10) * np.std(x), with np.std the population deviation:
\* n^2 var = n sum(x^2) - sum(x)^2.
VarianceN2(x) == Len(x) * SumSeq(Array([i \in DOMAIN x |-> x[i] * x[i]])) - SumSeq(x) * SumSeq(x)

\* (AtLeastStdMagnitude: a faulty threshold that compares magnitudes.)
AtLeastStdMagnitude(x, p, tenths, V) ==
    100 * x[p] * x[p] * Len(x) * Len(x) >= tenths * tenths * V

AtLeastStdFraction(x, p, tenths, V) ==
    x[p] >= 0 /\ 100 * x[p] * x[p] * Len(x) * Len(x) >= tenths * tenths * V

\* _select_by_peak_distance: from the highest peak down (of equal peaks the
\* later one first, the order a stable argsort read backwards gives), keep
\* the peak and drop every peak closer to it than `distance` samples.
RECURSIVE SelectByDistance(_, _, _, _)
SelectByDistance(x, todo, kept, distance) ==
    IF todo = {} THEN kept
    ELSE LET j == CHOOSE p \in todo :
                     \A q \in todo : x[q] < x[p] \/ (x[q] = x[p] /\ q <= p)
         IN  SelectByDistance(x, {q \in todo : Abs(q - j) >= distance},
                              kept \cup {j}, distance)

\* find_peaks(x, height = tenths / 10 * std(x), distance): the peak indices,
\* or a ValueError when a distance below 1 is given.  The height condition
\* is applied before the distance condition.
HighPeaks(x, tenths) ==
    With(VarianceN2(x), LAMBDA V :
        {p \in LocalMaxima(x) : AtLeastStdFraction(x, p, tenths, V)})

find_peaks(x, tenths, distance) ==
    IF distance.some /\ distance.val < 1 THEN [raised |-> TRUE, peaks |-> {}]
    ELSE IF distance.some
         THEN [raised |-> FALSE,
               peaks |-> With(HighPeaks(x, tenths), LAMBDA high :
                             SelectByDistance(x, high, {}, distance.val))]
         ELSE [raised |-> FALSE, peaks |-> HighPeaks(x, tenths)]

\* -self.absorption: only the numerators matter to the peaks, the scale
\* mul / den being positive; with no finite value nothing compares as a peak.
Inverted(absorption) ==
    IF absorption.den = 0 THEN Array([i \in DOMAIN absorption.num |-> 0])
    ELSE Array([i \in DOMAIN absorption.num |-> -absorption.num[i]])

\* MossbauerFitter.detect_number_of_sites
detect_number_of_sites(self) ==
    With(Inverted(self.absorption.val), LAMBDA inverted :
      With(find_peaks(inverted, 5, Some(Len(self.velocity.val) \div 20)), LAMBDA found :
        LET estimated_sites == Max2(1, Cardinality(found.peaks) \div 2)
        IN  IF found.raised THEN [raised |-> TRUE, val |-> 0]
            ELSE [raised |-> FALSE, val |-> Min2(estimated_sites, 4)]))

\* ---------------------------------------------------------- model and fit

ModelTypes == {"lorentzian", "voigt", "pseudo_voigt"}

\* Lines 106-113: the composite model, one component per prefix
\* peak1_, ..., peak{2 n_sites}_ ; no component at all leaves model = None.
\* (ModelPrefixesOdd: a faulty loop that leaves out the last component.)
ModelPrefixesOdd(n_sites) ==
    IF n_sites <= 0 THEN <<>> ELSE Array([i \in 1..(2 * n_sites - 1) |-> i])

ModelPrefixes(n_sites) == IF n_sites <= 0 THEN <<>> ELSE Array([i \in 1..(2 * n_sites) |-> i])

\* Lines 118-133: the initial centre of component i (0-based) as an exact
\* fraction over 4 n_sites: the i-th peak found at 0.3 standard deviations,
\* or v_min + (i + 0.5) (v_max - v_min) / (2 n_sites).
RECURSIVE SortedSeq(_)
SortedSeq(S) == IF S = {} THEN <<>>
                ELSE LET m == CHOOSE x \in S : \A y \in S : x <= y
                     IN  <<m>> \o SortedSeq(S \ {m})

PeakVelocities(self) ==
    With(Inverted(self.absorption.val), LAMBDA inverted :
      With(SortedSeq(find_peaks(inverted, 3, None).peaks), LAMBDA peaks :
        Array([j \in DOMAIN peaks |-> self.velocity.val[peaks[j]]])))

\* A faulty seed: the fallback centres are one step further along.
InitialCenterShifted(peak_velocities, v_min, v_max, n_sites, i) ==
    IF i < Len(peak_velocities)
    THEN [num |-> 4 * n_sites * peak_velocities[i + 1], den |-> 4 * n_sites]
    ELSE [num |-> 4 * n_sites * v_min + (2 * i + 3) * (v_max - v_min),
          den |-> 4 * n_sites]

InitialCenter(peak_velocities, v_min, v_max, n_sites, i) ==
    IF i < Len(peak_velocities)
    THEN [num |-> 4 * n_sites * peak_velocities[i + 1], den |-> 4 * n_sites]
    ELSE [num |-> 4 * n_sites * v_min + (2 * i + 1) * (v_max - v_min),
          den |-> 4 * n_sites]

\* MossbauerFitter.create_model: the prefixes of the model and the initial
\* parameters, or the error raised on the way (the ValueError of find_peaks
\* in detect_number_of_sites, the AttributeError of None.make_params()).
InitialParams(self, n) ==
    With(<<SeqMin(self.velocity.val), SeqMax(self.velocity.val), PeakVelocities(self)>>,
         LAMBDA t :
            LET v_min == t[1]
                v_max == t[2]
                peak_velocities == t[3]
            IN  Array([k \in 1..(2 * n) |->
                         [center |-> InitialCenter(peak_velocities, v_min, v_max, n, k - 1),
                          min |-> v_min, max |-> v_max]]))

create_model(self, n_sites) ==
    With(IF n_sites.some THEN [raised |-> FALSE, val |-> n_sites.val]
         ELSE detect_number_of_sites(self), LAMBDA n :
        IF n.raised
        THEN [raised |-> TRUE, error |-> "distance must be greater or equal to 1"]
        ELSE IF ModelPrefixes(n.val) = <<>>
        THEN [raised |-> TRUE, error |-> "'NoneType' object has no attribute 'make_params'"]
        ELSE [raised |-> FALSE, model |-> ModelPrefixes(n.val),
              params |-> InitialParams(self, n.val)])

\* The value of one fitted component at velocity v: a symmetric line of the
\* fitted amplitude around the fitted centre (the line shape of lmfit,
\* sampled coarsely: full height at the centre, half one step away).
LineShape(param, v) ==
    param.amplitude * (IF v = param.center THEN 2
                       ELSE IF Abs(v - param.center) = 1 THEN 1 ELSE 0)

\* result.eval_components(): prefix -> the component's values on the grid.
eval_components(result, velocity) ==
    Array([k \in DOMAIN result.params |->
              Array([i \in DOMAIN velocity |-> LineShape(result.params[k], velocity[i])])])

\* Twice np.trapz(y, x).
Trapz2(y, x) ==
    SumSeq(Array([i \in 1..(Len(x) - 1) |-> (x[i + 1] - x[i]) * (y[i] + y[i + 1])]))

\* MossbauerFitter._identify_site_type; both arguments in units of 0.05 mm/s.
_identify_site_type(isomer_shift, quadrupole_splitting) ==
    IF -4 <= isomer_shift /\ isomer_shift <= 10
    THEN (IF quadrupole_splitting < 10 THEN "Fe3+ (low-spin)" ELSE "Fe3+ (high-spin)")
    ELSE IF 12 <= isomer_shift /\ isomer_shift <= 30
    THEN (IF quadrupole_splitting < 20 THEN "Fe2+ (low-spin)" ELSE "Fe2+ (high-spin)")
    ELSE "Unknown"

\* A faulty relative area: only the first component of the doublet counts.
RelativeAreaOfFirst(components, velocity, peak1, peak2) ==
    With(Array([k \in DOMAIN components |-> Trapz2(components[k], velocity)]), LAMBDA areas :
      With(SumSeq(areas), LAMBDA total_area :
        IF total_area > 0
        THEN [num |-> 100 * areas[peak1], den |-> total_area]
        ELSE [num |-> 0, den |-> 1]))

\* Lines 207-211: the relative area of the doublet (peak1, peak2) as the
\* exact fraction num / den, 0 when the total area is not positive.
RelativeArea(components, velocity, peak1, peak2) ==
    With(Array([k \in DOMAIN components |-> Trapz2(components[k], velocity)]), LAMBDA areas :
      With(SumSeq(areas), LAMBDA total_area :
        IF total_area > 0
        THEN [num |-> 100 * (areas[peak1] + areas[peak2]), den |-> total_area]
        ELSE [num |-> 0, den |-> 1]))

\* One MossbauerSite of lines 195-222; shift and splitting in units of
\* 0.05 mm/s ((c1 + c2) / 2 and |c2 - c1| of centres in units of 0.1 mm/s).
Site(result, components, velocity, peak1, peak2) ==
    LET center1 == result.params[peak1].center
        center2 == result.params[peak2].center
        isomer_shift == center1 + center2
        quadrupole_splitting == 2 * Abs(center2 - center1)
    IN  [isomer_shift |-> isomer_shift,
         quadrupole_splitting |-> quadrupole_splitting,
         line_width |-> result.params[peak1].sigma + result.params[peak2].sigma,
         relative_area |-> RelativeArea(components, velocity, peak1, peak2),
         site_type |-> _identify_site_type(isomer_shift, quadrupole_splitting)]

\* The loop of _extract_mossbauer_parameters over site_idx = from..n_sites-1:
\* a doublet is extracted only when both of its prefixes are components.
RECURSIVE ExtractFrom(_, _, _, _, _)
ExtractFrom(result, components, velocity, site_idx, n_sites) ==
    IF site_idx >= n_sites THEN <<>>
    ELSE LET peak1 == site_idx * 2 + 1
             peak2 == site_idx * 2 + 2
         IN  (IF peak1 \in DOMAIN components /\ peak2 \in DOMAIN components
              THEN <<Site(result, components, velocity, peak1, peak2)>>
              ELSE <<>>)
             \o ExtractFrom(result, components, velocity, site_idx + 1, n_sites)

\* MossbauerFitter._extract_mossbauer_parameters
_extract_mossbauer_parameters(self, n_sites) ==
    With(IF n_sites.some THEN [raised |-> FALSE, val |-> n_sites.val]
         ELSE detect_number_of_sites(self), LAMBDA n :
        IF n.raised
        THEN [raised |-> TRUE, error |-> "distance must be greater or equal to 1"]
        ELSE [raised |-> FALSE,
              sites |-> With(eval_components(self.result.val, self.velocity.val),
                             LAMBDA components :
                                ExtractFrom(self.result.val, components,
                                            self.velocity.val, 0, n.val))])


\* What the optimizer (lmfit, model.fit) hands back: an error, or fitted
\* parameters within the bounds create_model set.  Doublet s (0-based) is
\* fitted at centres c1 + s and c2 + s, clamped to the centre bounds; the
\* doublets take the amplitudes a1 and a2 in turn.
FittedParams(created, opt) ==
    Array([k \in DOMAIN created.model |->
        LET s == (k - 1) \div 2
            c == (IF k % 2 = 1 THEN opt.c1 ELSE opt.c2) + s
        IN  [center    |-> Max2(created.params[k].min, Min2(created.params[k].max, c)),
             sigma     |-> 3,
             amplitude |-> IF s % 2 = 0 THEN opt.a1 ELSE opt.a2]])

\* ------------------------------------------------------------ interpretation

\* MossbauerInterpreter._create_interpretation_rules: the condition of rule k
\* on a site dict (units of 0.05 mm/s) and its interpretation.
RuleCondition(k, site) ==
    LET IS == site.isomer_shift
        QS == site.quadrupole_splitting
    IN  CASE k = 1 -> -4 <= IS /\ IS <= 10 /\ QS < 10
          [] k = 2 -> -4 <= IS /\ IS <= 10 /\ 10 <= QS /\ QS <= 40
          [] k = 3 -> 12 <= IS /\ IS <= 18 /\ QS < 20
          [] k = 4 -> 18 <= IS /\ IS <= 30 /\ QS > 30
          [] k = 5 -> IS > 30 /\ QS > 50

RuleInterpretation(k) ==
    CASE k = 1 -> "Low-spin Fe3+ in octahedral coordination"
      [] k = 2 -> "High-spin Fe3+ in octahedral coordination with distortion"
      [] k = 3 -> "Low-spin Fe2+ in octahedral coordination"
      [] k = 4 -> "High-spin Fe2+ in octahedral coordination"
      [] k = 5 -> "Fe2+ in tetrahedral coordination"

NumRules == 5

\* Lines 122-126: the interpretation of the first rule whose condition holds.
SiteInterpretation(site) ==
    IF \E k \in 1..NumRules : RuleCondition(k, site)
    THEN RuleInterpretation(CHOOSE k \in 1..NumRules :
                               /\ RuleCondition(k, site)
                               /\ \A j \in 1..(k - 1) : ~RuleCondition(j, site))
    ELSE "Unknown iron environment"

\* f"{x:.1f}" of the fraction num / den, in tenths: rounded to the nearest
\* tenth, a tie to the even one.
FormatTenths(num, den) ==
    LET q == (10 * num) \div den
        r == (10 * num) % den
    IN  IF 2 * r > den \/ (2 * r = den /\ q % 2 = 1) THEN q + 1 ELSE q

\* A faulty quality ladder: the thresholds themselves count as the better
\* label.
FitQualityInclusive(chi_squared) ==
    IF chi_squared <= 15 THEN "excellent"
    ELSE IF chi_squared <= 30 THEN "good"
    ELSE "moderate"

\* Lines 134-140; reduced chi-squared in units of 0.1.
FitQuality(chi_squared) ==
    IF chi_squared < 15 THEN "excellent"
    ELSE IF chi_squared < 30 THEN "good"
    ELSE "moderate"

\* MossbauerInterpreter._generate_rule_based_summary: the text, as the values
\* it is formatted from.
_generate_rule_based_summary(fit_results) ==
    [kind  |-> "rule",
     count |-> Len(fit_results.sites),
     interpretations |->
        [i \in DOMAIN fit_results.sites |->
            LET site == fit_results.sites[i]
            IN  [site  |-> i,
                 area  |-> FormatTenths(site.relative_area.num, site.relative_area.den),
                 label |-> SiteInterpretation(site),
                 IS    |-> site.isomer_shift,
                 QS    |-> site.quadrupole_splitting]],
     quality |-> FitQuality(fit_results.reduced_chi_squared),
     chi     |-> fit_results.reduced_chi_squared]

\* What the external completion call (client.messages.create) does once it
\* ends: a message with text, a message with no content, or an error.
Replies == {[kind |-> "text", text |-> "paragraph"], [kind |-> "empty"], [kind |-> "error"]}

NoReply == [kind |-> "none"]

\* MossbauerInterpreter._generate_ai_summary, given the client of
\* get_anthropic_client() and the outcome of the call.
_generate_ai_summary(client, fit_results, reply) ==
    IF ~client.some THEN [raised |-> TRUE]
    ELSE IF reply.kind = "text"
    THEN [raised |-> FALSE, text |-> [kind |-> "ai", text |-> reply.text]]
    ELSE [raised |-> TRUE]

\* A faulty generate_summary: no except clause, the error of the AI path
\* reaches the caller.
generate_summary_no_except(use_ai, client, fit_results, reply) ==
    IF use_ai
    THEN (IF _generate_ai_summary(client, fit_results, reply).raised
          THEN [raised |-> TRUE]
          ELSE [raised |-> FALSE, via |-> "ai",
                text |-> _generate_ai_summary(client, fit_results, reply).text])
    ELSE [raised |-> FALSE, via |-> "rule",
          text |-> _generate_rule_based_summary(fit_results)]

\* MossbauerInterpreter.generate_summary
generate_summary(use_ai, client, fit_results, reply) ==
    IF use_ai
    THEN (IF _generate_ai_summary(client, fit_results, reply).raised
          THEN [raised |-> FALSE, via |-> "fallback",
                text |-> _generate_rule_based_summary(fit_results)]
          ELSE [raised |-> FALSE, via |-> "ai",
                text |-> _generate_ai_summary(client, fit_results, reply).text])
    ELSE [raised |-> FALSE, via |-> "rule",
          text |-> _generate_rule_based_summary(fit_results)]

\* get_anthropic_client: the cached client, created from the environment's
\* key when there is none yet and the key is set and not empty.
get_anthropic_client(client, key) ==
    IF ~client.some /\ key.some /\ key.val # <<>> THEN Some(key.val) ELSE client


\* ------------------------------------------------------------------ inputs

RowCounts == {9, 10, 19, 20, 24, MaxRows}

BaseFile == [ext |-> "csv", parses |-> TRUE, delim |-> "comma", ncols |-> 2,
             nrows |-> 20, missing |-> 0, text |-> "none", profile |-> "signed",
             ndips |-> 2, alt |-> FALSE, desc |-> FALSE, oversize |-> FALSE]

\* Well-formed tables of every length, dip count and depth profile.
ShapeFiles ==
    {[BaseFile EXCEPT !.nrows = n, !.ndips = d, !.profile = p[1], !.alt = p[2]] :
        <<n, d, p>> \in {t \in RowCounts \X (0..MaxDips)
                                 \X {<<"signed", FALSE>>, <<"signed", TRUE>>, <<"percent", FALSE>>} :
                            2 * t[2] < t[1]}}

\* The base table in every format: extension, readability, delimiter, column
\* count, text cells, rows with empty cells, row order, size.
FormatFiles ==
    {[BaseFile EXCEPT !.ext = e, !.parses = ps, !.nrows = n] :
        <<e, ps, n>> \in {"csv", "txt", "xlsx", "dat"} \X BOOLEAN \X {10, 11, 20}}
    \cup {[BaseFile EXCEPT !.delim = dl, !.ncols = c] :
        <<dl, c>> \in {"tab", "space", "comma", "semicolon", "pipe"} \X (1..3)}
    \cup {[BaseFile EXCEPT !.text = t, !.missing = m, !.nrows = n] :
        <<t, m, n>> \in {"none", "col0", "col1"} \X (0..2) \X {10, 11, 20}}
    \cup {[BaseFile EXCEPT !.desc = TRUE], [BaseFile EXCEPT !.oversize = TRUE]}

DefaultOptions == [model_type |-> "lorentzian", n_sites |-> None, custom_params |-> "none"]

SiteOptions == {[DefaultOptions EXCEPT !.n_sites = ns] :
                   ns \in {None} \cup {Some(k) : k \in (-1)..MaxSites}}

OtherOptions ==
    {[DefaultOptions EXCEPT !.model_type = m] : m \in ModelTypes \cup {"gaussian"}}
    \cup {[DefaultOptions EXCEPT !.custom_params = c] : c \in {"override", "malformed"}}
    \cup {[DefaultOptions EXCEPT !.n_sites = Some(2), !.custom_params = "override"]}

\* The uploads to POST /analyze: a file, and the options sent with it (json
\* says whether the options string is JSON at all).
Requests ==
    {[file |-> f, json |-> j, options |-> DefaultOptions] :
        <<f, j>> \in {BaseFile,
                      [BaseFile EXCEPT !.desc = TRUE],
                      [BaseFile EXCEPT !.ext = "dat"],
                      [BaseFile EXCEPT !.ext = "xlsx"],
                      [BaseFile EXCEPT !.oversize = TRUE],
                      [BaseFile EXCEPT !.parses = FALSE],
                      [BaseFile EXCEPT !.nrows = 10],
                      [BaseFile EXCEPT !.text = "col1"]} \X BOOLEAN}
    \cup {[file |-> BaseFile, json |-> j, options |-> o] :
            <<j, o>> \in BOOLEAN \X {[DefaultOptions EXCEPT !.n_sites = Some(2)],
                                     [DefaultOptions EXCEPT !.n_sites = Some(0)],
                                     [DefaultOptions EXCEPT !.model_type = "gaussian"],
                                     [DefaultOptions EXCEPT !.custom_params = "malformed"]}}

\* The calls of process_spectrum(filename, raw_bytes, options).
DirectCalls ==
    {[file |-> f, json |-> TRUE, options |-> o] : <<f, o>> \in ShapeFiles \X SiteOptions}
    \cup {[file |-> f, json |-> TRUE, options |-> DefaultOptions] : f \in FormatFiles}
    \cup {[file |-> f, json |-> TRUE, options |-> o] :
            <<f, o>> \in {BaseFile, [BaseFile EXCEPT !.nrows = 24]}
                         \X (SiteOptions \cup OtherOptions)}

\* The outcomes of the optimizer tried: no convergence, and converged fits
\* varying the fitted centres, the fitted amplitudes, the fit quality.
FitOutcomes ==
    LET base == [converged |-> TRUE, c1 |-> 3, c2 |-> 7, a1 |-> 1, a2 |-> 1, redchi |-> 10]
    IN  {[base EXCEPT !.converged = FALSE]}
        \cup {[base EXCEPT !.c1 = c[1], !.c2 = c[2]] :
                c \in {<<3, 7>>, <<-2, 9>>, <<4, 10>>, <<9, 10>>, <<9, 1>>}}
        \cup {[base EXCEPT !.a1 = a, !.a2 = b] : <<a, b>> \in (0..MaxAmp) \X (0..MaxAmp)}
        \cup {[base EXCEPT !.redchi = x] : x \in {14, 15, 29, 30}}

\* Those tried behind POST /analyze: the amplitudes are left at one.
AnalyzeOutcomes == {o \in FitOutcomes : o.a1 = 1 /\ o.a2 = 1}

\* API keys as sequences of characters.
ApiKeys == {<<>>, <<"k", "e", "y">>, <<"s", "k", "-", "1">>}

StartsWithSk(api_key) == Len(api_key) >= 3 /\ SubSeq(api_key, 1, 3) = <<"s", "k", "-">>

\* ------------------------------------------------------------------- state

VARIABLES
    env_key,            \* os.environ["ANTHROPIC_API_KEY"]: None or Some(key)
    anthropic_client,   \* summarize._anthropic_client: None or Some(its key)
    pc,                 \* where the call being served stands ("idle": none)
    req,                \* the call: who made it, the file, the options
    fitter,             \* the MossbauerFitter of process_spectrum
    load,               \* what load_data returned
    detected,           \* what the last detect_number_of_sites call returned
    model,              \* the (model, params) create_model returned
    result,             \* what process_spectrum returned
    summary,            \* analyze's summary, with the path that produced it
    interpretation,     \* the report's interpretation, with its path
    ai_calls,           \* completion calls the interpreter made for this request
    response,           \* the response of the handler
    reports_storage,    \* main.reports_storage: the stored reports, each named by
                        \* its number in creation order, listed in key order
    n_created,            \* reports n_created so far
    cleanup_pending     \* the background task cleanup_old_reports is queued

vars == <<env_key, anthropic_client, pc, req, fitter, load, detected, model, result,
          summary, interpretation, ai_calls, response,
          reports_storage, n_created, cleanup_pending>>

credentials == <<env_key, anthropic_client>>
fit_locals == <<fitter, load, detected, model>>
interpreter_locals == <<summary, interpretation, ai_calls>>
reports == <<reports_storage, n_created, cleanup_pending>>

\* The key the process is started with.
Environments == {None, Some(<<"s", "k", "-", "0">>)}

Init ==
    /\ env_key \in Environments
    /\ anthropic_client = None
    /\ pc = "idle"
    /\ req = None
    /\ fitter = NewFitter
    /\ load = None
    /\ detected = None
    /\ model = None
    /\ result = None
    /\ summary = None
    /\ interpretation = None
    /\ ai_calls = 0
    /\ response = None
    /\ reports_storage = <<>>
    /\ n_created = 0
    /\ cleanup_pending = FALSE

\* ---------------------------------------------------------------- handlers

\* POST /set-api-key.  tested: whether the test completion call succeeds.
set_api_key(api_key, tested) ==
    /\ pc = "idle"
    /\ UNCHANGED reports
    /\ pc' = "done"
    /\ IF api_key = <<>> \/ ~StartsWithSk(api_key)
       THEN /\ response' = Some([status |-> 400, detail |-> "Invalid API key format"])
            /\ UNCHANGED env_key
       ELSE IF tested
       THEN /\ env_key' = Some(api_key)
            /\ response' = Some([status |-> 200, success |-> TRUE])
       ELSE /\ env_key' = None
            /\ response' = Some([status |-> 400, detail |-> "Invalid API key: "])
    /\ UNCHANGED <<anthropic_client, req, fit_locals, result, interpreter_locals>>

\* bool(os.getenv("ANTHROPIC_API_KEY"))
HasApiKey == env_key.some /\ env_key.val # <<>>

\* GET /check-api-key
check_api_key ==
    /\ pc = "idle"
    /\ UNCHANGED reports
    /\ pc' = "done"
    /\ response' = Some([status |-> 200, has_api_key |-> HasApiKey])
    /\ UNCHANGED <<credentials, req, fit_locals, result, interpreter_locals>>

\* json.loads(options), the default options when it fails (lines 110-114).
AnalysisOptions(r) == IF r.json THEN r.options ELSE DefaultOptions

ServerError == Some([status |-> 500, detail |-> "Internal Server Error"])

\* POST /analyze up to the call of process_spectrum (lines 95-117): the
\* upload is refused, or process_spectrum is called with the parsed options.
analyze(r) ==
    /\ pc = "idle"
    /\ UNCHANGED reports
    /\ req' = Some([caller |-> "analyze", file |-> r.file, options |-> AnalysisOptions(r)])
    /\ IF r.file.ext \notin {"txt", "csv", "xlsx"}
       THEN /\ response' = Some([status |-> 400,
                                 detail |-> "Invalid file format. Supported: .txt, .csv, .xlsx"])
            /\ pc' = "done"
       ELSE IF r.file.oversize
       THEN /\ response' = Some([status |-> 400, detail |-> "File too large. Maximum size: 10MB"])
            /\ pc' = "done"
       ELSE /\ pc' = "process_spectrum"
            /\ UNCHANGED response
    /\ UNCHANGED <<credentials, fit_locals, result, interpreter_locals>>

\* A direct call of process_spectrum(filename, raw_bytes, options).
process_spectrum_call(r) ==
    /\ pc = "idle"
    /\ UNCHANGED reports
    /\ req' = Some([caller |-> "direct", file |-> r.file, options |-> r.options])
    /\ pc' = "process_spectrum"
    /\ UNCHANGED <<credentials, fit_locals, result, interpreter_locals, response>>

\* process_spectrum returns `value` to its caller.
Return(value) ==
    /\ result' = Some(value)
    /\ pc' = IF req.val.caller = "analyze" THEN "processed" ELSE "done"
    /\ UNCHANGED response

\* process_spectrum raises to its caller: analyze has no handler for it, the
\* request ends as a server error.
Raise ==
    /\ result' = Some([raised |-> TRUE])
    /\ pc' = "done"
    /\ response' = IF req.val.caller = "analyze" THEN ServerError ELSE response

\* process_spectrum, lines 324-329: the fitter is built; FitModel(...) of an
\* unknown model_type raises, outside every try.
process_spectrum ==
    /\ pc = "process_spectrum"
    /\ UNCHANGED reports
    /\ IF req.val.options.model_type \notin ModelTypes
       THEN Raise
       ELSE /\ pc' = "load_data"
            /\ UNCHANGED <<result, response>>
    /\ fitter' = NewFitter
    /\ UNCHANGED <<credentials, req, load, detected, model, interpreter_locals>>

\* process_spectrum, lines 331-334: load_data, and the error result when it
\* fails.
process_spectrum_load_data ==
    /\ pc = "load_data"
    /\ UNCHANGED reports
    /\ \E loaded \in {load_data(fitter, req.val.file)} :
           /\ fitter' = loaded.fitter
           /\ load' = Some([ok |-> loaded.ok, message |-> loaded.message])
           /\ IF loaded.ok
              THEN /\ pc' = "create_model"
                   /\ UNCHANGED <<result, response>>
              ELSE Return([success |-> FALSE, error |-> loaded.message])
    /\ UNCHANGED <<credentials, req, detected, model, interpreter_locals>>

\* except Exception of process_spectrum, lines 355-356.
FittingFailed(error) == Return([success |-> FALSE, error |-> "Fitting failed: " \o error])

\* What detect_number_of_sites returns where n_sites is None (lines 96-97,
\* 182-183); it is not called otherwise.
DetectIfNone(self, n_sites) ==
    IF n_sites.some THEN None ELSE Some(detect_number_of_sites(self))

\* fit, line 154: create_model(n_sites).
fit_create_model ==
    /\ pc = "create_model"
    /\ UNCHANGED reports
    /\ \E n_sites \in {req.val.options.n_sites} :
       \E created \in {create_model(fitter, n_sites)} :
           /\ detected' = DetectIfNone(fitter, n_sites)
           /\ IF created.raised
              THEN /\ FittingFailed(created.error)
                   /\ UNCHANGED model
              ELSE /\ model' = Some(created)
                   /\ pc' = "model_fit"
                   /\ UNCHANGED <<result, response>>
    /\ UNCHANGED <<credentials, req, fitter, load, interpreter_locals>>

\* fit, lines 156-164: the custom parameters are applied and the optimizer
\* runs, ending with outcome opt.  custom_params is "none", "override" (a
\* dict of dicts) or "malformed" (values that set(**value) cannot take).
fit_model_fit(opt) ==
    /\ pc = "model_fit"
    /\ UNCHANGED reports
    /\ IF req.val.options.custom_params = "malformed"
       THEN /\ FittingFailed("set() argument after ** must be a mapping")
            /\ UNCHANGED fitter
       ELSE IF ~opt.converged
       THEN /\ FittingFailed("NaN values detected in your input data or the output of your objective/model function")
            /\ UNCHANGED fitter
       ELSE /\ fitter' = [fitter EXCEPT !.result =
                             Some([params |-> FittedParams(model.val, opt),
                                   redchi |-> opt.redchi])]
            /\ pc' = "extract"
            /\ UNCHANGED <<result, response>>
    /\ UNCHANGED <<credentials, req, load, detected, model, interpreter_locals>>

\* fit, lines 167-178, and process_spectrum, lines 341-354: the sites are
\* extracted and the successful result is returned.
fit_extract ==
    /\ pc = "extract"
    /\ UNCHANGED reports
    /\ \E n_sites \in {req.val.options.n_sites} :
       \E sites \in {_extract_mossbauer_parameters(fitter, n_sites)} :
           /\ detected' = DetectIfNone(fitter, n_sites)
           /\ IF sites.raised
              THEN FittingFailed(sites.error)
              ELSE Return([success |-> TRUE,
                           fit_results |-> [success |-> TRUE, sites |-> sites.sites,
                                            reduced_chi_squared |-> fitter.result.val.redchi,
                                            n_data_points |-> Len(fitter.velocity.val)]])
    /\ UNCHANGED <<credentials, req, fitter, load, model, interpreter_locals>>

\* MossbauerInterpreter.__init__(use_ai=True): self.use_ai, given the client
\* get_anthropic_client() returned.
UseAi(client) == client.some

\* analyze, lines 119-127: an unsuccessful result is answered at once;
\* otherwise the interpreter is built and generate_summary runs, up to the
\* completion call when the AI path is taken.
analyze_summary ==
    /\ pc = "processed"
    /\ UNCHANGED reports
    /\ UNCHANGED <<env_key, req, fit_locals, result, interpretation>>
    /\ IF ~result.val.success
       THEN /\ response' = Some([status |-> 200, success |-> FALSE, error |-> result.val.error])
            /\ pc' = "done"
            /\ UNCHANGED <<anthropic_client, summary, ai_calls>>
       ELSE LET client == get_anthropic_client(anthropic_client, env_key)
            IN  /\ anthropic_client' = client
                /\ UNCHANGED response
                /\ IF UseAi(client)
                   THEN /\ pc' = "summary_ai"
                        /\ ai_calls' = ai_calls + 1
                        /\ UNCHANGED summary
                   ELSE /\ pc' = "report"
                        /\ summary' = Some(generate_summary(FALSE, client,
                                                            result.val.fit_results, NoReply))
                        /\ UNCHANGED ai_calls

\* The completion call of analyze's generate_summary ends with `reply`.
summary_completion(reply) ==
    /\ pc = "summary_ai"
    /\ UNCHANGED reports
    /\ LET s == generate_summary(TRUE, anthropic_client, result.val.fit_results, reply)
       IN  IF s.raised
           THEN /\ response' = ServerError
                /\ pc' = "done"
                /\ UNCHANGED summary
           ELSE /\ summary' = Some(s)
                /\ pc' = "report"
                /\ UNCHANGED response
    /\ UNCHANGED <<credentials, req, fit_locals, result, interpretation, ai_calls>>

SuccessResponse == Some([status |-> 200, success |-> TRUE])

\* cleanup_old_reports: the number of stored reports above which it deletes,
\* and the number of reports it then keeps.
CleanupThreshold == 100
KeepCount == 50

\* The sequence seq with x put after its first p elements.
InsertAt(seq, p, x) == SubSeq(seq, 1, p) \o <<x>> \o SubSeq(seq, p + 1, Len(seq))

\* str(uuid.uuid4()): where the key of a new report falls among the stored
\* keys, as the number of stored keys below it.  The key sequences tried
\* are the rising ones (each new key above all stored keys) and the falling
\* ones (each new key below all stored keys).
KeyPositions(storage) ==
    {p \in {0, Len(storage)} :
        \/ Len(storage) <= 1
        \/ p = Len(storage) /\ storage[1] < storage[2]
        \/ p = 0 /\ storage[1] > storage[2]}

\* analyze, lines 129-139: the report is stored under its new key and the
\* cleanup is queued as a background task.
StoreReport(position) ==
    /\ reports_storage' = InsertAt(reports_storage, position, n_created + 1)
    /\ n_created' = n_created + 1
    /\ cleanup_pending' = TRUE

\* analyze, lines 129-136: generate_detailed_report builds an interpreter of
\* its own and calls generate_summary for the report's interpretation.
generate_detailed_report ==
    /\ pc = "report"
    /\ UNCHANGED <<env_key, req, fit_locals, result, summary>>
    /\ LET client == get_anthropic_client(anthropic_client, env_key)
       IN  /\ anthropic_client' = client
           /\ IF UseAi(client)
              THEN /\ pc' = "report_ai"
                   /\ ai_calls' = ai_calls + 1
                   /\ UNCHANGED <<interpretation, response>>
              ELSE /\ pc' = "done"
                   /\ interpretation' = Some(generate_summary(FALSE, client,
                                                              result.val.fit_results, NoReply))
                   /\ response' = SuccessResponse
                   /\ UNCHANGED ai_calls
    /\ IF UseAi(get_anthropic_client(anthropic_client, env_key))
       THEN UNCHANGED reports
       ELSE \E position \in KeyPositions(reports_storage) : StoreReport(position)

\* The completion call of the report's generate_summary ends with `reply`;
\* the report is stored and the response returned (lines 136-150).
report_completion(reply) ==
    /\ pc = "report_ai"
    /\ LET s == generate_summary(TRUE, anthropic_client, result.val.fit_results, reply)
       IN  IF s.raised
           THEN /\ response' = ServerError
                /\ UNCHANGED <<interpretation, reports>>
           ELSE /\ interpretation' = Some(s)
                /\ response' = SuccessResponse
                /\ \E position \in KeyPositions(reports_storage) : StoreReport(position)
    /\ pc' = "done"
    /\ UNCHANGED <<credentials, req, fit_locals, result, summary, ai_calls>>

\* cleanup_old_reports, run as the background task of the request: above
\* the threshold every key but the last KeepCount of sorted(keys) is deleted.
cleanup_old_reports ==
    /\ pc = "done"
    /\ cleanup_pending
    /\ cleanup_pending' = FALSE
    /\ reports_storage' =
          IF Len(reports_storage) > CleanupThreshold
          THEN SubSeq(reports_storage, Len(reports_storage) - KeepCount + 1,
                      Len(reports_storage))
          ELSE reports_storage
    /\ UNCHANGED <<credentials, pc, req, fit_locals, result, interpreter_locals,
                   response, n_created>>

\* The call has returned, its background task has run, its frame is gone.
finish ==
    /\ pc = "done"
    /\ ~cleanup_pending
    /\ UNCHANGED reports
    /\ pc' = "idle"
    /\ req' = None
    /\ fitter' = NewFitter
    /\ load' = None
    /\ detected' = None
    /\ model' = None
    /\ result' = None
    /\ summary' = None
    /\ interpretation' = None
    /\ ai_calls' = 0
    /\ response' = None
    /\ UNCHANGED credentials

\* ----------------------------------------------------------- specifications

\* The steps of process_spectrum, with the optimizer outcomes tried.
FitStep(outcomes) ==
    \/ process_spectrum
    \/ process_spectrum_load_data
    \/ fit_create_model
    \/ \E opt \in outcomes : fit_model_fit(opt)
    \/ fit_extract

\* The steps of the server itself, and those of the external service.
ServerStep ==
    \/ \E k \in ApiKeys, tested \in BOOLEAN : set_api_key(k, tested)
    \/ check_api_key
    \/ \E r \in Requests : n_created < MaxServerReports /\ analyze(r)
    \/ FitStep(AnalyzeOutcomes)
    \/ analyze_summary
    \/ generate_detailed_report
    \/ cleanup_old_reports
    \/ finish

ServiceStep ==
    \/ \E reply \in Replies : summary_completion(reply)
    \/ \E reply \in Replies : report_completion(reply)

Next == ServerStep \/ ServiceStep

Spec == Init /\ [][Next]_vars

\* The server takes its own steps; the external service owes no answer.
FairSpec == Spec /\ WF_vars(ServerStep)

\* The fitting pipeline on its own: process_spectrum called on every table
\* and option, no credential in the environment.
PipelineInit == Init /\ env_key = None

PipelineNext ==
    \/ \E r \in DirectCalls : process_spectrum_call(r)
    \/ FitStep(FitOutcomes)
    \/ finish

PipelineSpec == PipelineInit /\ [][PipelineNext]_vars

\* The report store on its own: one upload analysed again and again with no
\* credential in the environment, every report stored and cleaned up after.
ReportsRequest == [file |-> BaseFile, json |-> TRUE, options |-> DefaultOptions]

ReportsOutcomes == {o \in FitOutcomes : o.converged /\ o.c1 = 3 /\ o.c2 = 7 /\ o.a1 = 1
                                        /\ o.a2 = 1 /\ o.redchi = 10}

ReportsNext ==
    \/ n_created < MaxReports /\ analyze(ReportsRequest)
    \/ FitStep(ReportsOutcomes)
    \/ analyze_summary
    \/ generate_detailed_report
    \/ cleanup_old_reports
    \/ finish

ReportsSpec == PipelineInit /\ [][ReportsNext]_vars

\* ------------------------------------------------------------------ properties

\* process_spectrum returned a successful result.
Succeeded == result.some /\ "success" \in DOMAIN result.val /\ result.val.success

\* process_spectrum returned an error result carrying message m.
Failed(m) == result = Some([success |-> FALSE, error |-> m])

Sites == result.val.fit_results.sites

\* C1: generate_summary never propagates an AI-path error.  Every summary
\* and every report interpretation it produced without the AI text is the
\* rule-based summary of the fit results (so two calls on the same results
\* give the same text); with no client it takes the rule path; and once the
\* fit has succeeded the request never ends as a server error.
C1_SummaryFallsBack ==
    /\ \A s \in {summary, interpretation} :
          (s.some /\ s.val.via # "ai") =>
              s.val.text = _generate_rule_based_summary(result.val.fit_results)
    /\ (summary.some /\ ~anthropic_client.some) => summary.val.via = "rule"
    /\ (interpretation.some /\ ~anthropic_client.some) => interpretation.val.via = "rule"
    /\ (Succeeded /\ response.some) => response.val.status = 200
    /\ (Succeeded /\ pc = "done") => summary.some /\ interpretation.some

\* C1 witness: both completion calls of one request failed and the request
\* was answered with the rule-based texts.
C1_Witness ==
    /\ pc = "done"
    /\ ai_calls = 2
    /\ summary.some /\ summary.val.via = "fallback"
    /\ interpretation.some /\ interpretation.val.via = "fallback"
    /\ response.val.status = 200

\* The site count of the call: the explicit n_sites, or the detected one.
SiteCount ==
    IF req.val.options.n_sites.some THEN req.val.options.n_sites.val
    ELSE detected.val.val

\* C2: once a spectrum is loaded, process_spectrum returns an error result
\* or a successful one whose sites are exactly site_count doublets, site i
\* built from components 2i - 1 and 2i.
C2_SiteCount ==
    (pc = "done" /\ load.some /\ load.val.ok) =>
        /\ result.some /\ "success" \in DOMAIN result.val
        /\ ~result.val.success => "error" \in DOMAIN result.val
        /\ result.val.success =>
              /\ Len(Sites) = SiteCount
              /\ \A i \in DOMAIN Sites :
                    Sites[i].isomer_shift = fitter.result.val.params[2 * i - 1].center
                                            + fitter.result.val.params[2 * i].center

\* C2 witness: a successful fit with the site count detected, at its cap.
C2_Witness ==
    /\ Succeeded
    /\ ~req.val.options.n_sites.some
    /\ detected.val.val = 4
    /\ Len(Sites) = 4

\* The columns and rows of the table read from file f (a text file split on
\* no known delimiter is one column; a sheet gives its first row to the
\* header), and the rows left without the rows holding an empty cell.
TableColumns(f) ==
    IF f.ext = "xlsx" \/ f.delim \in {"tab", "space", "comma", "semicolon"}
    THEN f.ncols ELSE 1

RemainingRows(f) ==
    IF f.ext = "xlsx" THEN f.nrows - Max2(f.missing, 1)
    ELSE IF TableColumns(f) = f.ncols THEN f.nrows - f.missing
    ELSE f.nrows

\* load_data failed with message m and process_spectrum returned the error
\* with no fit performed.
LoadFailed(m) ==
    /\ load.val = [ok |-> FALSE, message |-> m]
    /\ Failed(m)
    /\ model = None
    /\ fitter.result = None

C4_DetectNeverFails ==
    detected.some => ~detected.val.raised /\ detected.val.val \in 1..4

\* Twice the integral of each fitted component, and their sum.
ComponentAreas ==
    LET components == eval_components(fitter.result.val, fitter.velocity.val)
    IN  Array([k \in DOMAIN components |-> Trapz2(components[k], fitter.velocity.val)])

\* C5: with a positive total area each site's relative area is 100 times the
\* area of its two components over the total, and the relative areas sum to
\* 100; otherwise every relative area is exactly 0.
C5_RelativeAreas ==
    Succeeded =>
        LET areas == ComponentAreas
            total == SumSeq(areas)
        IN  IF total > 0
            THEN /\ \A i \in DOMAIN Sites :
                       /\ Sites[i].relative_area.den = total
                       /\ Sites[i].relative_area.num = 100 * (areas[2 * i - 1] + areas[2 * i])
                 /\ SumSeq(Array([i \in DOMAIN Sites |-> Sites[i].relative_area.num]))
                        = 100 * total
            ELSE \A i \in DOMAIN Sites :
                    Sites[i].relative_area.num = 0 /\ Sites[i].relative_area.den > 0

\* C5 witness: a fit of two sites or more with unequal positive shares.
C5_Witness ==
    /\ Succeeded
    /\ Len(Sites) >= 2
    /\ SumSeq(ComponentAreas) > 0
    /\ Sites[1].relative_area.num > Sites[2].relative_area.num
    /\ Sites[2].relative_area.num > 0

\* The chemical class (oxidation state, spin state) a label of either table
\* names.
ClassOfSiteType(site_type) ==
    CASE site_type = "Fe3+ (low-spin)"  -> <<"Fe3+", "low-spin">>
      [] site_type = "Fe3+ (high-spin)" -> <<"Fe3+", "high-spin">>
      [] site_type = "Fe2+ (low-spin)"  -> <<"Fe2+", "low-spin">>
      [] site_type = "Fe2+ (high-spin)" -> <<"Fe2+", "high-spin">>
      [] OTHER -> <<"Unknown", "Unknown">>

ClassOfInterpretation(label) ==
    CASE label = RuleInterpretation(1) -> <<"Fe3+", "low-spin">>
      [] label = RuleInterpretation(2) -> <<"Fe3+", "high-spin">>
      [] label = RuleInterpretation(3) -> <<"Fe2+", "low-spin">>
      [] label = RuleInterpretation(4) -> <<"Fe2+", "high-spin">>
      [] label = RuleInterpretation(5) -> <<"Fe2+", "unstated">>
      [] OTHER -> <<"Unknown", "Unknown">>

\* C6: for every fitted site the inline classifier (site_type) and the
\* interpreter's rule table (the label of the rule-based summary) name the
\* same chemical class.
C6_TablesAgree ==
    (summary.some /\ summary.val.via # "ai") =>
        \A i \in DOMAIN Sites :
            ClassOfSiteType(Sites[i].site_type)
                = ClassOfInterpretation(summary.val.text.interpretations[i].label)

\* C6 witness: the boundary site, isomer shift 0.5 and quadrupole splitting
\* 0.4 mm/s, summarised by the rule table.
C6_Witness ==
    /\ summary.some /\ summary.val.via # "ai"
    /\ Sites[1].isomer_shift = 10
    /\ Sites[1].quadrupole_splitting = 8
    /\ ClassOfSiteType(Sites[1].site_type) = <<"Fe3+", "low-spin">>
    /\ ClassOfInterpretation(summary.val.text.interpretations[1].label) = <<"Fe3+", "low-spin">>

\* C7: after an AI-path failure the completion call is not made again for
\* the same request.
C7_NoSecondAttempt ==
    (summary.some /\ summary.val.via = "fallback") => ai_calls <= 1

\* C8: the completion call is made only while the credential is configured.
C8_AttemptOnlyWithKey ==
    pc \in {"summary_ai", "report_ai"} => HasApiKey

\* C9: a failed load_data leaves velocity and absorption as they were before
\* the call (process_spectrum calls it on a fitter just built: both None).
C9_FailedLoadKeepsArrays ==
    (load.some /\ ~load.val.ok) =>
        fitter.velocity = NewFitter.velocity /\ fitter.absorption = NewFitter.absorption

\* C10: a completion call that was started is eventually over, whatever the
\* external service does.
C10_CompletionCallEnds ==
    (pc = "summary_ai") ~> (pc # "summary_ai")

\* The rules of the table that match site, in table order.
MatchingRules(site) == {k \in 1..NumRules : RuleCondition(k, site)}

\* C11: the quality label of the rule-based summary is "excellent" below a
\* reduced chi-squared of 1.5, "good" from 1.5 to below 3.0 and "moderate"
\* otherwise, whatever the sites are; the text of each site carries the
\* interpretation of the first rule matching it, or the unknown label when
\* no rule matches.
C11_QualityAndFirstRule ==
    \A s \in {summary, interpretation} :
        (s.some /\ s.val.via # "ai") =>
            LET text == s.val.text
                chi  == result.val.fit_results.reduced_chi_squared
            IN  /\ text.quality \in {"excellent", "good", "moderate"}
                /\ text.quality = "excellent" <=> chi < 15
                /\ text.quality = "good" <=> (15 <= chi /\ chi < 30)
                /\ text.quality = "moderate" <=> chi >= 30
                /\ Len(text.interpretations) = Len(Sites)
                /\ \A i \in DOMAIN Sites :
                      LET matching == MatchingRules(Sites[i])
                      IN  IF matching = {}
                          THEN text.interpretations[i].label = "Unknown iron environment"
                          ELSE \E k \in matching :
                                  /\ \A j \in matching : k <= j
                                  /\ text.interpretations[i].label = RuleInterpretation(k)

\* C11 witness: a rule-based summary of a fit whose reduced chi-squared is
\* exactly 1.5, labelled good, with a site the first rule matches.
C11_Witness ==
    /\ summary.some /\ summary.val.via = "rule"
    /\ result.val.fit_results.reduced_chi_squared = 15
    /\ summary.val.text.quality = "good"
    /\ 1 \in MatchingRules(Sites[1])
    /\ summary.val.text.interpretations[1].label = RuleInterpretation(1)

\* C12: create_model builds 2 n_sites components; component i (0-based) is
\* seeded with the i-th detected peak position while i is below the number
\* of detected peaks and with v_min + (i + 0.5) (v_max - v_min) / (2 n_sites)
\* otherwise; every initial centre lies within [v_min, v_max], which are
\* its bounds, and with v_max > v_min no two fallback seeds coincide.
C12_ComponentSeeds ==
    model.some =>
        LET n      == SiteCount
            params == model.val.params
            v_min  == SeqMin(fitter.velocity.val)
            v_max  == SeqMax(fitter.velocity.val)
            peak_velocities == PeakVelocities(fitter)
            fallback == {k \in DOMAIN params : k - 1 >= Len(peak_velocities)}
        IN  /\ Len(model.val.model) = 2 * n
            /\ Len(params) = 2 * n
            /\ \A k \in DOMAIN params :
                  /\ params[k].min = v_min /\ params[k].max = v_max
                  /\ params[k].center.den > 0
                  /\ IF k \in fallback
                     THEN 4 * n * params[k].center.num
                            = params[k].center.den
                              * (4 * n * v_min + (2 * (k - 1) + 1) * (v_max - v_min))
                     ELSE params[k].center.num
                            = params[k].center.den * peak_velocities[k]
                  /\ v_min * params[k].center.den <= params[k].center.num
                  /\ params[k].center.num <= v_max * params[k].center.den
            /\ v_max > v_min =>
                  \A j, k \in fallback :
                      j # k => params[j].center.num * params[k].center.den
                                 # params[k].center.num * params[j].center.den

\* C12 witness: a model of four components, two seeded from detected peaks
\* and two from the even distribution.
C12_Witness ==
    /\ model.some
    /\ Len(model.val.params) = 4
    /\ Len(PeakVelocities(fitter)) = 2
    /\ model.val.params[2].center.num = model.val.params[2].center.den
                                           * PeakVelocities(fitter)[2]
    /\ model.val.params[3].center.num # model.val.params[4].center.num

\* The reports stored, as the set of their creation numbers.
StoredReports == {reports_storage[i] : i \in DOMAIN reports_storage}

\* C13: once cleanup_old_reports has run on more than 100 stored reports,
\* exactly 50 reports remain and they are the 50 created last; on 100
\* reports or fewer it removes nothing.
C13_KeepsMostRecent ==
    (pc = "done" /\ response = SuccessResponse /\ ~cleanup_pending) =>
        IF n_created > CleanupThreshold /\ Len(reports_storage) = KeepCount
        THEN StoredReports = (n_created - KeepCount + 1)..n_created
        ELSE n_created \in StoredReports

\* C13 witness: the cleanup has just run on 101 stored reports and has left
\* 50 of them.
C13_Witness ==
    /\ pc = "done" /\ response = SuccessResponse /\ ~cleanup_pending
    /\ n_created = CleanupThreshold + 1
    /\ Len(reports_storage) = KeepCount

\* C14: process_spectrum never raises to its caller: whatever the file and
\* the options, the call ends with a dictionary whose success field is a
\* boolean and which carries an error message when success is false.
C14_AlwaysReturns ==
    result.some =>
        /\ DOMAIN result.val \subseteq {"success", "error", "fit_results"}
        /\ "success" \in DOMAIN result.val
        /\ result.val.success \in BOOLEAN
        /\ ~result.val.success => "error" \in DOMAIN result.val

\* C14 witness: calls with n_sites <= 0 and with malformed custom_params
\* have ended with an error dictionary.
C14_Witness ==
    /\ pc = "done"
    /\ \/ req.val.options.n_sites \in {Some(0), Some(-1)}
       \/ req.val.options.custom_params = "malformed"
    /\ result.some
    /\ DOMAIN result.val = {"success", "error"}
    /\ ~result.val.success

\* The loaded spectrum has 20 samples or more and every absorption value is
\* strictly positive.
PositiveSpectrum ==
    /\ fitter.velocity.some /\ fitter.absorption.some
    /\ Len(fitter.velocity.val) >= 20
    /\ fitter.absorption.val.den > 0
    /\ \A i \in DOMAIN fitter.absorption.val.num :
          fitter.absorption.val.num[i] * fitter.absorption.val.mul > 0

\* C15: on a loaded spectrum of 20 samples or more whose absorption values
\* are all strictly positive, detect_number_of_sites returns 1 however many
\* dips the spectrum has, create_model finds no peak position, and every
\* component of the model is seeded from the even-distribution fallback.
C15_PositiveAbsorptionOneSite ==
    PositiveSpectrum =>
        /\ detect_number_of_sites(fitter) = [raised |-> FALSE, val |-> 1]
        /\ detected.some => detected.val = [raised |-> FALSE, val |-> 1]
        /\ PeakVelocities(fitter) = <<>>
        /\ model.some =>
              LET n      == SiteCount
                  params == model.val.params
                  v_min  == SeqMin(fitter.velocity.val)
                  v_max  == SeqMax(fitter.velocity.val)
              IN  /\ Len(params) = 2 * n
                  /\ \A k \in DOMAIN params :
                        /\ params[k].center.den > 0
                        /\ 4 * n * params[k].center.num
                             = params[k].center.den
                               * (4 * n * v_min + (2 * (k - 1) + 1) * (v_max - v_min))

\* C15 witness: a spectrum of positive absorption with four dips or more,
\* each a local maximum of the negated signal; one site was detected and the
\* two components of the model were built.
C15_Witness ==
    /\ PositiveSpectrum
    /\ req.val.file.ndips >= 4
    /\ Cardinality(LocalMaxima(Inverted(fitter.absorption.val))) >= 4
    /\ ~req.val.options.n_sites.some
    /\ detected = Some([raised |-> FALSE, val |-> 1])
    /\ model.some
    /\ Len(model.val.params) = 2

====
